---- MODULE Spec2Model ----
(***************************************************************************)
(* Grouping and segmented aggregation of arkouda/groupbyclass.py: the      *)
(* GroupBy object (construction, count, aggregate, nunique, broadcast) and *)
(* the module-level broadcast function, together with the delegated        *)
(* kernels of the external engine they call.                               *)
(*                                                                         *)
(* Arrays are sequences; array indices and the entries of permutation and  *)
(* segments are 0-based as in the source, so a[i] of the source is         *)
(* a[i + 1] here.                                                          *)
(***************************************************************************)
EXTENDS Integers, Sequences, FiniteSets, TLC

VARIABLES self, call, callers

vars == <<self, call, callers>>

(***************************************************************************)
(* Bounds of the model.                                                    *)
(***************************************************************************)
\* rows of a single key column
MaxSize == 2
\* rows of the columns of a key sequence
MaxSeqRows == 1
\* key values are 0..MaxKey
MaxKey == 1
\* values of a value column are 0..MaxVal
MaxVal == 1

(***************************************************************************)
(* Sequence helpers.                                                       *)
(***************************************************************************)
Arrays(S, n) == [1..n -> S]

ArraysUpTo(S, n) == UNION {Arrays(S, k) : k \in 0..n}

RECURSIVE SumSeq(_)
SumSeq(s) == IF s = <<>> THEN 0 ELSE Head(s) + SumSeq(Tail(s))

RECURSIVE ProdSeq(_)
ProdSeq(s) == IF s = <<>> THEN 1 ELSE Head(s) * ProdSeq(Tail(s))

\* the elements of a set of integers as an ascending sequence
RECURSIVE Ascending(_)
Ascending(S) ==
    IF S = {} THEN <<>>
    ELSE LET m == CHOOSE x \in S : \A y \in S : x <= y
         IN <<m>> \o Ascending(S \ {m})

Slice(a, lo, hi) == [j \in 1..(hi - lo) |-> a[lo + j]]

(***************************************************************************)
(* Array objects.  A pdarray is its dtype and data; a Categorical is       *)
(* modelled by its codes (each category stands for its code) and by        *)
(* whether it caches its own segments.                                     *)
(***************************************************************************)
pdarray(dtype, data) ==
    [objtype |-> "pdarray", dtype |-> dtype, data |-> data, cached |-> FALSE]

Categorical(codes, cached) ==
    [objtype |-> "Categorical", dtype |-> "int64", data |-> codes, cached |-> cached]

Size(a) == Len(a.data)

int64(data) == pdarray("int64", data)

\* pdarraycreation.arange(n): [0, n)
arange(n) == int64([i \in 1..n |-> i - 1])

\* a[idx] for an index array idx: gather
Index(a, idx) == [a EXCEPT !.data = [j \in 1..Len(idx) |-> a.data[idx[j] + 1]],
                           !.cached = FALSE]

\* a user-defined groupable array (lines 92-97) of two fields: each entry of
\* data stands for the pair (data \div 2, data % 2), and _get_grouping_keys
\* returns the two fields; it defines no group()
UserGroupable(data) ==
    [objtype |-> "UserGroupable", dtype |-> "int64", data |-> data,
     cached |-> FALSE]

\* the "sortable key representations" of a column
get_grouping_keys(k) ==
    IF k.objtype = "UserGroupable"
    THEN <<[i \in 1..Len(k.data) |-> k.data[i] \div 2],
           [i \in 1..Len(k.data) |-> k.data[i] % 2]>>
    ELSE <<k.data>>

\* an object with a size that is no groupable array (it has no
\* _get_grouping_keys)
ndarray(data) ==
    [objtype |-> "ndarray", dtype |-> "int64", data |-> data, cached |-> FALSE]

\* hasattr(k, "_get_grouping_keys")
Groupable(k) ==
    k.objtype \in {"pdarray", "Categorical", "Strings", "UserGroupable"}

HasGroup(k) == k.objtype = "Categorical"

(***************************************************************************)
(* The delegated kernels of the external engine and of the collaborating   *)
(* client modules (sorting, Categorical).                                  *)
(***************************************************************************)
\* rows i and j (1-based) of the key columns gk carry the same key
RowEq(gk, i, j) == \A c \in 1..Len(gk) : gk[c][i] = gk[c][j]

\* row i sorts before row j: lexicographic, the first column primary
LexLess(gk, i, j) ==
    \E c \in 1..Len(gk) :
        /\ gk[c][i] < gk[c][j]
        /\ \A d \in 1..(c - 1) : gk[d][i] = gk[d][j]

\* the number of rows a stable ascending sort places before row i
Rank(gk, n, i) ==
    Cardinality({j \in 1..n : LexLess(gk, j, i) \/ (RowEq(gk, j, i) /\ j < i)})

\* the permutation (grouped position -> original row) of a stable ascending sort
SortPerm(gk, n) ==
    [p \in 1..n |-> (CHOOSE i \in 1..n : Rank(gk, n, i) = p - 1) - 1]

\* sort-single-key
argsort(key) == SortPerm(<<key>>, Len(key))

\* sort-multi-key
coargsort(keys) == SortPerm(keys, Len(keys[1]))

\* find-segments: the start offset of every run of equal keys in the permuted
\* order, and the original row at each start
findSegments(permutation, gk) ==
    LET n == Len(permutation)
        starts == {j \in 0..(n - 1) :
                     \/ j = 0
                     \/ ~RowEq(gk, permutation[j + 1] + 1, permutation[j] + 1)}
        segs == Ascending(starts)
    IN [segments |-> segs,
        unique_key_indices |-> [g \in 1..Len(segs) |-> permutation[segs[g] + 1]]]

\* Categorical.group(): the permutation that groups the codes
group(k) == argsort(k.data)

\* Categorical.segments: None (here "cached" is FALSE) or the segments of the
\* grouped codes
CategoricalSegments(k) == findSegments(group(k), <<k.data>>).segments

\* Categorical._categories_used: the categories that occur, ascending
categories_used(k) ==
    [objtype |-> "Strings", dtype |-> "str", cached |-> FALSE,
     data |-> Ascending({k.data[i] : i \in 1..Len(k.data)})]

\* one request to a collaborator: the command and its arguments
Request(cmd, args) == [cmd |-> cmd, args |-> args]

(***************************************************************************)
(* GroupBy.__init__ and GroupBy.find_segments.  A grouping object is a     *)
(* record; attrs is the set of result attributes that have been assigned.  *)
(***************************************************************************)
\* the keys argument: one groupable column, or a sequence of columns
SingleKey(k) == [seq |-> FALSE, cols |-> <<k>>]

KeySequence(cols) == [seq |-> TRUE, cols |-> cols]

\* the grouping keys gathered by the loop over a key sequence, up to the first
\* column whose size differs or that is not groupable
RECURSIVE GatherKeys(_, _)
GatherKeys(cols, size) ==
    IF cols = <<>> \/ Size(Head(cols)) # size \/ ~Groupable(Head(cols)) THEN <<>>
    ELSE get_grouping_keys(Head(cols)) \o GatherKeys(Tail(cols), size)

\* the error the loop raises at the first column it refuses: a value error for
\* a size that differs, else a type error for a column that is not groupable
RECURSIVE LoopOutcome(_, _)
LoopOutcome(cols, size) ==
    IF cols = <<>> THEN "ok"
    ELSE IF Size(Head(cols)) # size THEN "ValueError"
    ELSE IF ~Groupable(Head(cols)) THEN "TypeError"
    ELSE LoopOutcome(Tail(cols), size)

\* a flag argument: a bool, or an object of another type with its truth value
Bool(b) == [type |-> "bool", value |-> b]

NonBool == [type |-> "pdarray", value |-> TRUE]

\* the engine accepts every request, or rejects the request or the part of
\* the reply named
EngineFaults ==
    {"none", "sort", "findSegments", "decode_segments", "decode_indices", "index"}

\* normalize taking the flags by their truth value, whatever their type
normalize_truthy(keys, assume_sorted, hash_strings) ==
    LET size == Size(keys.cols[1])
    IN [outcome |-> IF keys.seq THEN LoopOutcome(keys.cols, size) ELSE "ok",
        keys |-> keys, assume_sorted |-> assume_sorted.value,
        given |-> [assume_sorted |-> assume_sorted, hash_strings |-> hash_strings],
        nkeys |-> Len(keys.cols), size |-> size,
        attrs |-> {"_grouping_keys"},
        grouping_keys |-> IF keys.seq THEN GatherKeys(keys.cols, size)
                          ELSE get_grouping_keys(keys.cols[1]),
        permutation |-> <<>>, segments |-> <<>>,
        unique_keys |-> <<>>, ngroups |-> 0, requests |-> <<>>, engine |-> "none"]

\* lines 110-142: flags, keys, nkeys, size and the flattened grouping keys
normalize(keys, assume_sorted, hash_strings) ==
    LET size == Size(keys.cols[1])
        base == [outcome |-> "ok", keys |-> keys,
                 assume_sorted |-> assume_sorted.value,
                 given |-> [assume_sorted |-> assume_sorted,
                            hash_strings |-> hash_strings],
                 nkeys |-> Len(keys.cols), size |-> size,
                 attrs |-> {"_grouping_keys"},
                 grouping_keys |-> <<>>, permutation |-> <<>>, segments |-> <<>>,
                 unique_keys |-> <<>>, ngroups |-> 0, requests |-> <<>>,
                 engine |-> "none"]
    IN IF assume_sorted.type # "bool" \/ hash_strings.type # "bool"
       THEN [base EXCEPT !.outcome = "TypeError", !.attrs = {}]
       ELSE IF ~keys.seq
       THEN [base EXCEPT !.grouping_keys = get_grouping_keys(keys.cols[1])]
       ELSE [base EXCEPT !.outcome = LoopOutcome(keys.cols, size),
                         !.grouping_keys = GatherKeys(keys.cols, size)]

\* get_permutation without the sort: the rows are left in their original order
get_permutation_unsorted(g) ==
    [g EXCEPT !.permutation = arange(g.size).data,
              !.attrs = @ \cup {"permutation"},
              !.requests = Append(@, Request("arange", <<g.size>>))]

\* get_permutation sorting by the first grouping key alone
get_permutation_first_key(g) ==
    IF g.assume_sorted
    THEN [g EXCEPT !.permutation = arange(g.size).data,
                   !.attrs = @ \cup {"permutation"},
                   !.requests = Append(@, Request("arange", <<g.size>>))]
    ELSE IF ~g.keys.seq /\ HasGroup(g.keys.cols[1])
    THEN [g EXCEPT !.permutation = group(g.keys.cols[1]),
                   !.attrs = @ \cup {"permutation"},
                   !.requests = Append(@, Request("group", <<g.keys.cols[1]>>))]
    ELSE [g EXCEPT !.permutation = argsort(g.grouping_keys[1]),
                   !.attrs = @ \cup {"permutation"},
                   !.requests = Append(@, Request("argsort", <<g.grouping_keys[1]>>))]

\* get_permutation sorting the flattened representations of a key that can
\* group itself
get_permutation_never_asking_key(g) ==
    IF g.assume_sorted
    THEN [g EXCEPT !.permutation = arange(g.size).data,
                   !.attrs = @ \cup {"permutation"},
                   !.requests = Append(@, Request("arange", <<g.size>>))]
    ELSE IF Len(g.grouping_keys) = 1
    THEN [g EXCEPT !.permutation = argsort(g.grouping_keys[1]),
                   !.attrs = @ \cup {"permutation"},
                   !.requests = Append(@, Request("argsort", <<g.grouping_keys[1]>>))]
    ELSE [g EXCEPT !.permutation = coargsort(g.grouping_keys),
                   !.attrs = @ \cup {"permutation"},
                   !.requests = Append(@, Request("coargsort", g.grouping_keys))]

\* get_permutation asking a key that can group itself before it looks at
\* assume_sorted
get_permutation_group_first(g) ==
    IF ~g.keys.seq /\ HasGroup(g.keys.cols[1])
    THEN [g EXCEPT !.permutation = group(g.keys.cols[1]),
                   !.attrs = @ \cup {"permutation"},
                   !.requests = Append(@, Request("group", <<g.keys.cols[1]>>))]
    ELSE IF g.assume_sorted
    THEN [g EXCEPT !.permutation = arange(g.size).data,
                   !.attrs = @ \cup {"permutation"},
                   !.requests = Append(@, Request("arange", <<g.size>>))]
    ELSE IF Len(g.grouping_keys) = 1
    THEN [g EXCEPT !.permutation = argsort(g.grouping_keys[1]),
                   !.attrs = @ \cup {"permutation"},
                   !.requests = Append(@, Request("argsort", <<g.grouping_keys[1]>>))]
    ELSE [g EXCEPT !.permutation = coargsort(g.grouping_keys),
                   !.attrs = @ \cup {"permutation"},
                   !.requests = Append(@, Request("coargsort", g.grouping_keys))]

\* lines 143-155: the permutation, from exactly one source
get_permutation(g) ==
    IF g.assume_sorted
    THEN [g EXCEPT !.permutation = arange(g.size).data,
                   !.attrs = @ \cup {"permutation"},
                   !.requests = Append(@, Request("arange", <<g.size>>))]
    ELSE IF ~g.keys.seq /\ HasGroup(g.keys.cols[1])
    THEN [g EXCEPT !.permutation = group(g.keys.cols[1]),
                   !.attrs = @ \cup {"permutation"},
                   !.requests = Append(@, Request("group", <<g.keys.cols[1]>>))]
    ELSE IF Len(g.grouping_keys) = 1
    THEN [g EXCEPT !.permutation = argsort(g.grouping_keys[1]),
                   !.attrs = @ \cup {"permutation"},
                   !.requests = Append(@, Request("argsort", <<g.grouping_keys[1]>>))]
    ELSE [g EXCEPT !.permutation = coargsort(g.grouping_keys),
                   !.attrs = @ \cup {"permutation"},
                   !.requests = Append(@, Request("coargsort", g.grouping_keys))]

\* lines 164-172: a single key that stores its segments and unique keys
adopt_cached(g) ==
    LET uk == categories_used(g.keys.cols[1])
    IN [g EXCEPT !.unique_keys = <<uk>>,
                 !.segments = CategoricalSegments(g.keys.cols[1]),
                 !.ngroups = Size(uk),
                 !.attrs = @ \cup {"unique_keys", "segments", "ngroups"}]

\* lines 174-195: the findSegments request, its reply split into segments and
\* unique-row positions, the keys indexed at those positions
resolve(g, segAttr, uniqAttr) ==
    LET asked == [g EXCEPT !.requests = Append(@,
                    Request("findSegments", <<g.permutation, g.grouping_keys>>))]
        sent == [asked EXCEPT !.segments = segAttr,
                              !.attrs = @ \cup {"segments"}]
    IN IF g.engine \in {"findSegments", "decode_segments"}
       THEN \* the request, the split of the reply or the segments part fails
            [asked EXCEPT !.outcome = "RuntimeError"]
       ELSE IF g.engine = "decode_indices"
       THEN [sent EXCEPT !.outcome = "RuntimeError"]
       ELSE IF g.nkeys = 1 /\ g.keys.seq
       THEN \* self.keys is a list: it cannot be indexed by an array
            [sent EXCEPT !.outcome = "TypeError"]
       ELSE IF g.engine = "index"
       THEN [sent EXCEPT !.outcome = "RuntimeError",
                         !.requests = Append(@, Request("[]",
                                         <<g.keys.cols[1], uniqAttr>>))]
       ELSE IF g.nkeys = 1
       THEN LET uk == Index(g.keys.cols[1], uniqAttr)
            IN [sent EXCEPT !.unique_keys = <<uk>>,
                            !.ngroups = Size(uk),
                            !.attrs = (@ \cup {"unique_keys", "ngroups"})
                                         \ {"_grouping_keys"},
                            !.grouping_keys = <<>>,
                            !.requests = Append(@, Request("[]",
                                <<g.keys.cols[1], uniqAttr>>))]
       ELSE LET uks == [c \in 1..g.nkeys |-> Index(g.keys.cols[c], uniqAttr)]
            IN [sent EXCEPT !.unique_keys = uks,
                            !.ngroups = Size(uks[1]),
                            !.attrs = (@ \cup {"unique_keys", "ngroups"})
                                         \ {"_grouping_keys"},
                            !.grouping_keys = <<>>,
                            !.requests = @ \o [c \in 1..g.nkeys |->
                                Request("[]", <<g.keys.cols[c], uniqAttr>>)]]

\* find_segments with the two parts of the reply taken in the wrong order
find_segments_swapped(g) ==
    IF g.nkeys = 1 /\ ~g.keys.seq /\ g.keys.cols[1].cached
    THEN adopt_cached(g)
    ELSE LET rep == findSegments(g.permutation, g.grouping_keys)
         IN resolve(g, rep.unique_key_indices, rep.segments)

\* find_segments assigning segments only once the unique keys are there
find_segments_assigning_last(g) ==
    IF g.nkeys = 1 /\ ~g.keys.seq /\ g.keys.cols[1].cached
    THEN adopt_cached(g)
    ELSE LET rep == findSegments(g.permutation, g.grouping_keys)
             r == resolve(g, rep.segments, rep.unique_key_indices)
         IN IF r.outcome = "ok" THEN r
            ELSE [r EXCEPT !.segments = <<>>, !.attrs = @ \ {"segments"}]

\* lines 160-195
find_segments(g) ==
    IF g.nkeys = 1 /\ ~g.keys.seq /\ g.keys.cols[1].cached
    THEN adopt_cached(g)
    ELSE LET rep == findSegments(g.permutation, g.grouping_keys)
         IN resolve(g, rep.segments, rep.unique_key_indices)

\* GroupBy.__init__, the engine rejecting the request or reply part named by
\* engine ("none": it accepts all)
GroupBy_init(keys, assume_sorted, hash_strings, engine) ==
    LET n == normalize(keys, assume_sorted, hash_strings)
        p == get_permutation(n)
    IN IF n.outcome # "ok" THEN n
       ELSE IF engine = "sort"
       THEN [n EXCEPT !.outcome = "RuntimeError", !.requests = p.requests,
                      !.engine = engine]
       ELSE find_segments([p EXCEPT !.engine = engine])

\* GroupBy(keys, assume_sorted): hash_strings has its default
GroupBy(keys, assume_sorted) ==
    GroupBy_init(keys, Bool(assume_sorted), Bool(TRUE), "none")

(***************************************************************************)
(* The reduction and broadcast kernels of the external engine.             *)
(***************************************************************************)
\* the end (exclusive) of segment g: the next start, the last one runs to size
SegEnd(segments, g, size) == IF g < Len(segments) THEN segments[g + 1] ELSE size

\* segment-count
countReduction(segments, size) ==
    [g \in 1..Len(segments) |-> SegEnd(segments, g, size) - segments[g]]

RECURSIVE BitOp(_, _, _)
BitOp(op, a, b) ==
    IF a = 0 /\ b = 0 THEN 0
    ELSE LET x == a % 2
             y == b % 2
             bit == CASE op = "or" -> IF x + y > 0 THEN 1 ELSE 0
                      [] op = "and" -> x * y
                      [] op = "xor" -> (x + y) % 2
         IN bit + 2 * BitOp(op, a \div 2, b \div 2)

RECURSIVE BitFold(_, _)
BitFold(op, s) ==
    IF Len(s) = 1 THEN s[1] ELSE BitOp(op, s[1], BitFold(op, Tail(s)))

MinOf(s) == CHOOSE x \in {s[k] : k \in 1..Len(s)} : \A k \in 1..Len(s) : x <= s[k]

MaxOf(s) == CHOOSE x \in {s[k] : k \in 1..Len(s)} : \A k \in 1..Len(s) : x >= s[k]

\* the first position (1-based) of x in s
FirstAt(s, x) == CHOOSE k \in 1..Len(s) : s[k] = x /\ \A m \in 1..(k - 1) : s[m] # x

\* the reduction of one segment; lo is the segment's start in the reduced array.
\* argmin and argmax give the position in the reduced array (lo + the offset in
\* the segment) of the first minimum or maximum; mean is the pair <<sum, count>>
ReduceSegment(op, s, lo) ==
    CASE op = "sum" -> SumSeq(s)
      [] op = "prod" -> ProdSeq(s)
      [] op = "mean" -> <<SumSeq(s), Len(s)>>
      [] op = "min" -> MinOf(s)
      [] op = "max" -> MaxOf(s)
      [] op = "argmin" -> lo + FirstAt(s, MinOf(s)) - 1
      [] op = "argmax" -> lo + FirstAt(s, MaxOf(s)) - 1
      [] op = "any" -> IF \E k \in 1..Len(s) : s[k] # 0 THEN 1 ELSE 0
      [] op = "all" -> IF \A k \in 1..Len(s) : s[k] # 0 THEN 1 ELSE 0
      [] op \in {"or", "and", "xor"} -> BitFold(op, s)

ReducedDtype(op, dtype) ==
    CASE op = "sum" -> IF dtype = "bool" THEN "int64" ELSE dtype
      [] op \in {"prod", "mean"} -> "float64"
      [] op \in {"argmin", "argmax"} -> "int64"
      [] op \in {"any", "all"} -> "bool"
      [] OTHER -> dtype

\* segment-reduce: one aggregate per segment, in segment order
segmentedReduction(values, segments, op, skipna) ==
    pdarray(ReducedDtype(op, values.dtype),
            [g \in 1..Len(segments) |->
                ReduceSegment(op,
                              Slice(values.data, segments[g],
                                    SegEnd(segments, g, Size(values))),
                              segments[g])])

\* the segment holding grouped position j: the last one starting at or before j
SegmentOf(segments, j) ==
    LET S == {g \in 1..Len(segments) : segments[g] <= j}
    IN CHOOSE g \in S : \A h \in S : h <= g

\* broadcast: values[g] replicated over segment g in grouped order, then, when
\* permute holds, scattered through the permutation back to original row order
broadcastKernel(permutation, segments, values, permute, size) ==
    LET grouped == [j \in 1..size |-> values.data[SegmentOf(segments, j - 1)]]
    IN pdarray(values.dtype,
               IF permute
               THEN [i \in 1..size |->
                       grouped[CHOOSE j \in 1..size : permutation[j] = i - 1]]
               ELSE grouped)

(***************************************************************************)
(* The calls on a grouping.  A call's outcome is "ok" or the error raised; *)
(* requests are the requests the call issued, in order.                    *)
(***************************************************************************)
\* the reduction set lacking its last member
Reductions_without_xor ==
    {"sum", "prod", "mean", "min", "max", "argmin", "argmax",
     "nunique", "any", "all", "or", "and"}

\* GroupByReductionType: the values of the members
Reductions == {"sum", "prod", "mean", "min", "max", "argmin", "argmax",
               "nunique", "any", "all", "or", "and", "xor"}

NoArray == pdarray("none", <<>>)

Returned(unique_keys, result, requests) ==
    [outcome |-> "ok", unique_keys |-> unique_keys, result |-> result,
     requests |-> requests, detail |-> {}]

\* an error whose message lists the names in detail
RaisedWith(error, detail, requests) ==
    [outcome |-> error, unique_keys |-> <<>>, result |-> NoArray,
     requests |-> requests, detail |-> detail]

Raised(error, requests) == RaisedWith(error, {}, requests)

\* count handing the number of groups to the kernel in place of the row count
count_ngroups(g) ==
    Returned(g.unique_keys, int64(countReduction(g.segments, g.ngroups)),
             <<Request("countReduction", <<g.segments, g.ngroups>>)>>)

\* GroupBy.count
count(g) ==
    Returned(g.unique_keys, int64(countReduction(g.segments, g.size)),
             <<Request("countReduction", <<g.segments, g.size>>)>>)

\* GroupBy.broadcast always asking for the original row order
GroupBy_broadcast_permuting(g, values, permute) ==
    IF Size(values) # Len(g.segments)
    THEN Raised("ValueError", <<>>)
    ELSE Returned(<<>>,
                  broadcastKernel(g.permutation, g.segments, values, TRUE, g.size),
                  <<Request("broadcast",
                            <<g.permutation, g.segments, values, TRUE, g.size>>)>>)

\* GroupBy.broadcast
GroupBy_broadcast(g, values, permute) ==
    IF Size(values) # Len(g.segments)
    THEN Raised("ValueError", <<>>)
    ELSE Returned(<<>>,
                  broadcastKernel(g.permutation, g.segments, values, permute, g.size),
                  <<Request("broadcast",
                            <<g.permutation, g.segments, values, permute, g.size>>)>>)

\* nunique values given as a sequence of arrays
ValueList(cols) == [objtype |-> "list", cols |-> cols]

\* count_pairs putting the values before the group index in the composite key
count_pairs_values_first(g, values, ukidx, r1) ==
    IF values.objtype = "pdarray" /\ values.dtype \notin {"int64", "uint64"}
    THEN Raised("TypeError", r1)
    ELSE LET togroup == IF values.objtype = "list"
                        THEN values.cols \o <<ukidx>>
                        ELSE <<values, ukidx>>
             pairs == GroupBy(KeySequence(togroup), FALSE)
             r2 == r1 \o pairs.requests
         IN IF pairs.outcome # "ok" THEN Raised(pairs.outcome, r2)
            ELSE LET g2 == GroupBy(SingleKey(pairs.unique_keys[1]), TRUE)
                     r3 == r2 \o g2.requests
                 IN IF g2.outcome # "ok" THEN Raised(g2.outcome, r3)
                    ELSE LET c == count(g2)
                         IN Returned(g.unique_keys, c.result, r3 \o c.requests)

\* lines 706-724: the grouping of the (group index, value) pairs, the
\* grouping of its unique group indices, and the count of that
count_pairs(g, values, ukidx, r1) ==
    IF values.objtype = "pdarray" /\ values.dtype \notin {"int64", "uint64"}
    THEN Raised("TypeError", r1)
    ELSE LET \* the loop over a sequence of arrays tests the sequence itself
             \* for being an array, which it never is: nothing is raised
             togroup == IF values.objtype = "list"
                        THEN <<ukidx>> \o values.cols
                        ELSE <<ukidx, values>>
             pairs == GroupBy(KeySequence(togroup), FALSE)
             r2 == r1 \o pairs.requests
         IN IF pairs.outcome # "ok" THEN Raised(pairs.outcome, r2)
            ELSE LET g2 == GroupBy(SingleKey(pairs.unique_keys[1]), TRUE)
                     r3 == r2 \o g2.requests
                 IN IF g2.outcome # "ok" THEN Raised(g2.outcome, r3)
                    ELSE LET c == count(g2)
                         IN Returned(g.unique_keys, c.result, r3 \o c.requests)

\* nunique broadcasting the group index in grouped order
nunique_grouped(g, values) ==
    LET ukidx == GroupBy_broadcast(g, arange(g.ngroups), FALSE)
        r1 == <<Request("arange", <<g.ngroups>>)>> \o ukidx.requests
    IN IF ukidx.outcome # "ok" THEN Raised(ukidx.outcome, r1)
       ELSE count_pairs(g, values, ukidx.result, r1)

\* GroupBy.nunique
nunique(g, values) ==
    LET ukidx == GroupBy_broadcast(g, arange(g.ngroups), TRUE)
        r1 == <<Request("arange", <<g.ngroups>>)>> \o ukidx.requests
    IN IF ukidx.outcome # "ok" THEN Raised(ukidx.outcome, r1)
       ELSE count_pairs(g, values, ukidx.result, r1)

\* str.lower() on the operator names the model passes
lower(operator) ==
    CASE operator = "SUM" -> "sum"
      [] operator = "ArgMin" -> "argmin"
      [] operator = "Count" -> "count"
      [] operator = "NUNIQUE" -> "nunique"
      [] OTHER -> operator

\* reduce_segments returning the reply for argmin and argmax as it comes: the
\* positions in grouped order
reduce_segments_untranslated(g, values, permuted_values, r1, op, skipna) ==
    Returned(g.unique_keys,
             segmentedReduction(permuted_values, g.segments, op, skipna),
             Append(r1, Request("segmentedReduction",
                                <<permuted_values, g.segments, op, skipna>>)))

\* lines 293-309: the values in grouped order, the segmentedReduction request
\* and, for argmin and argmax, the reply indexed through the permutation
reduce_segments(g, values, permuted_values, r1, op, skipna) ==
    LET r2 == Append(r1, Request("segmentedReduction",
                                 <<permuted_values, g.segments, op, skipna>>))
        rep == segmentedReduction(permuted_values, g.segments, op, skipna)
    IN IF op \in {"argmin", "argmax"}
       THEN Returned(g.unique_keys,
                     Index(int64(g.permutation), rep.data),
                     Append(r2, Request("[]", <<g.permutation, rep.data>>)))
       ELSE Returned(g.unique_keys, rep, r2)

\* aggregate reducing the values in the order given, whatever assume_sorted is
aggregate_unpermuted(g, values, operator, skipna) ==
    LET op == lower(operator)
    IN IF op \notin Reductions THEN RaisedWith("ValueError", Reductions, <<>>)
       ELSE IF op = "nunique" THEN nunique(g, values)
       ELSE IF Size(values) # g.size THEN Raised("ValueError", <<>>)
       ELSE reduce_segments(g, values, values, <<>>, op, skipna)

\* aggregate refusing the dtypes the reduction methods refuse
aggregate_checking_dtype(g, values, operator, skipna) ==
    LET op == lower(operator)
    IN IF op \notin Reductions THEN RaisedWith("ValueError", Reductions, <<>>)
       ELSE IF op = "nunique" THEN nunique(g, values)
       ELSE IF Size(values) # g.size THEN Raised("ValueError", <<>>)
       ELSE IF \/ op \in {"min", "max", "argmin", "argmax"} /\ values.dtype = "bool"
               \/ op \in {"or", "and", "xor"} /\ values.dtype \notin {"int64", "uint64"}
               \/ op \in {"any", "all"} /\ values.dtype # "bool"
       THEN Raised("TypeError", <<>>)
       ELSE IF g.assume_sorted
       THEN reduce_segments(g, values, values, <<>>, op, skipna)
       ELSE reduce_segments(g, values, Index(values, g.permutation),
                            <<Request("[]", <<values, g.permutation>>)>>, op, skipna)

\* aggregate looking the operator up as it is written
aggregate_case_sensitive(g, values, operator, skipna) ==
    IF operator \notin Reductions THEN RaisedWith("ValueError", Reductions, <<>>)
    ELSE IF operator = "nunique" THEN nunique(g, values)
    ELSE IF Size(values) # g.size THEN Raised("ValueError", <<>>)
    ELSE IF g.assume_sorted
    THEN reduce_segments(g, values, values, <<>>, operator, skipna)
    ELSE reduce_segments(g, values, Index(values, g.permutation),
                         <<Request("[]", <<values, g.permutation>>)>>,
                         operator, skipna)

\* aggregate looking at the size of the values before the operator
aggregate_size_first(g, values, operator, skipna) ==
    LET op == lower(operator)
    IN IF Size(values) # g.size THEN Raised("ValueError", <<>>)
       ELSE IF op \notin Reductions THEN RaisedWith("ValueError", Reductions, <<>>)
       ELSE IF op = "nunique" THEN nunique(g, values)
       ELSE IF g.assume_sorted
       THEN reduce_segments(g, values, values, <<>>, op, skipna)
       ELSE reduce_segments(g, values, Index(values, g.permutation),
                            <<Request("[]", <<values, g.permutation>>)>>, op, skipna)

\* aggregate asking the kernel to skip missing values whatever skipna is
aggregate_skipping_always(g, values, operator, skipna) ==
    LET op == lower(operator)
    IN IF op \notin Reductions THEN RaisedWith("ValueError", Reductions, <<>>)
       ELSE IF op = "nunique" THEN nunique(g, values)
       ELSE IF Size(values) # g.size THEN Raised("ValueError", <<>>)
       ELSE IF g.assume_sorted
       THEN reduce_segments(g, values, values, <<>>, op, TRUE)
       ELSE reduce_segments(g, values, Index(values, g.permutation),
                            <<Request("[]", <<values, g.permutation>>)>>, op, TRUE)

\* GroupBy.aggregate
aggregate(g, values, operator, skipna) ==
    LET op == lower(operator)
    IN IF op \notin Reductions THEN RaisedWith("ValueError", Reductions, <<>>)
       ELSE IF op = "nunique" THEN nunique(g, values)
       ELSE IF Size(values) # g.size THEN Raised("ValueError", <<>>)
       ELSE IF g.assume_sorted
       THEN reduce_segments(g, values, values, <<>>, op, skipna)
       ELSE reduce_segments(g, values, Index(values, g.permutation),
                            <<Request("[]", <<values, g.permutation>>)>>, op, skipna)

\* the reduction methods: GroupBy.sum ... GroupBy.XOR, each checking the dtype
\* of the values before it delegates to aggregate
Methods == {"sum", "prod", "mean", "min", "max", "argmin", "argmax",
            "any", "all", "OR", "AND", "XOR"}

\* the reduction methods delegating without looking at the dtype
reduce_unchecked(g, method, values, skipna) ==
    aggregate(g, values,
              CASE method = "OR" -> "or"
                [] method = "AND" -> "and"
                [] method = "XOR" -> "xor"
                [] OTHER -> method,
              skipna)

reduce(g, method, values, skipna) ==
    CASE method \in {"sum", "prod", "mean"} -> aggregate(g, values, method, skipna)
      [] method \in {"min", "max"} ->
            IF values.dtype = "bool" THEN Raised("TypeError", <<>>)
            ELSE aggregate(g, values, method, skipna)
      [] method \in {"argmin", "argmax"} ->
            IF values.dtype = "bool" THEN Raised("TypeError", <<>>)
            ELSE aggregate(g, values, method, TRUE)
      [] method \in {"any", "all"} ->
            IF values.dtype # "bool" THEN Raised("TypeError", <<>>)
            ELSE aggregate(g, values, method, TRUE)
      [] method \in {"OR", "AND", "XOR"} ->
            IF values.dtype \notin {"int64", "uint64"} THEN Raised("TypeError", <<>>)
            ELSE aggregate(g, values,
                           CASE method = "OR" -> "or"
                             [] method = "AND" -> "and"
                             [] method = "XOR" -> "xor",
                           TRUE)

(***************************************************************************)
(* The module-level broadcast function.                                    *)
(***************************************************************************)
None == [given |-> FALSE, data |-> <<>>]

Permutation(data) == [given |-> TRUE, data |-> data]

\* the size the broadcast request carries
ResolvedSize(size, permutation) ==
    IF permutation.given THEN Len(permutation.data) ELSE size

\* lines 1038-1045: the broadcast request for n result rows
broadcast_request(segments, values, permutation, n) ==
    IF n < 1 THEN Raised("ValueError", <<>>)
    ELSE Returned(<<>>,
                  broadcastKernel(permutation.data, segments, values,
                                  permutation.given, n),
                  <<Request("broadcast",
                            <<permutation, segments, values, permutation.given, n>>)>>)

\* broadcast taking the number of segments for the number of rows
broadcast_one_row_per_segment(segments, values, size, permutation) ==
    IF Len(segments) # Size(values) THEN Raised("ValueError", <<>>)
    ELSE IF Len(segments) = 0 THEN Raised("ValueError", <<>>)
    ELSE IF ~permutation.given /\ size = -1 THEN Raised("ValueError", <<>>)
    ELSE broadcast_request(segments, values, permutation, Len(segments))

\* broadcast rejecting only the negative sizes
broadcast_accepting_zero(segments, values, size, permutation) ==
    IF Len(segments) # Size(values) THEN Raised("ValueError", <<>>)
    ELSE IF Len(segments) = 0 THEN Raised("ValueError", <<>>)
    ELSE IF ~permutation.given /\ size = -1 THEN Raised("ValueError", <<>>)
    ELSE IF ResolvedSize(size, permutation) = 0
    THEN Returned(<<>>, pdarray(values.dtype, <<>>),
                  <<Request("broadcast",
                            <<permutation, segments, values, permutation.given, 0>>)>>)
    ELSE broadcast_request(segments, values, permutation,
                           ResolvedSize(size, permutation))

\* lines 1023-1045
broadcast(segments, values, size, permutation) ==
    IF Len(segments) # Size(values) THEN Raised("ValueError", <<>>)
    ELSE IF Len(segments) = 0 THEN Raised("ValueError", <<>>)
    ELSE IF ~permutation.given /\ size = -1 THEN Raised("ValueError", <<>>)
    ELSE broadcast_request(segments, values, permutation,
                           ResolvedSize(size, permutation))

(***************************************************************************)
(* The inputs of the model: every array within the bounds, and the arrays  *)
(* of the examples in the docstrings.                                      *)
(***************************************************************************)
DTypes == {"int64", "uint64", "float64", "bool"}

\* the data of the value columns of the model: int64 columns range over
\* 0..MaxVal, the columns of the other dtypes over 0..1
ValData(dtype) == IF dtype = "int64" THEN 0..MaxVal ELSE 0..1

\* docstring of count, of GroupBy.broadcast, of argmin and of nunique; the
\* value columns of these docstrings, and one for the five-row key
ExampleKeys == {<<3, 2, 3, 1, 2, 4, 3, 4, 3, 4>>,
                <<0, 1, 0, 1, 0>>,
                <<3, 3, 4, 3, 3, 2, 3, 2, 4, 2>>,
                <<1, 1, 1, 2, 2, 2, 3, 3, 3, 4>>}

ExampleValues == {int64(<<3, 3, 3, 4, 1, 1, 3, 3, 3, 4>>),
                  int64(<<3, 4, 3, 1, 1, 4, 3, 4, 1, 4>>),
                  int64(<<2, 1, 2, 1, 4>>),
                  int64(<<3, 5>>)}

\* a key of two columns whose rows repeat and are not in order
ExampleKeySequence ==
    KeySequence(<<int64(<<1, 0, 1, 0, 1>>), int64(<<0, 1, 1, 0, 0>>)>>)

\* key sequences one column of which is refused: it is not groupable, or its
\* size differs, or both, in either order
RefusedKeyInputs ==
    {KeySequence(cols) : cols \in
        {<<int64(<<0>>), ndarray(<<0>>)>>,
         <<ndarray(<<0>>), int64(<<0>>)>>,
         <<ndarray(<<1, 0>>)>>,
         <<int64(<<1, 0>>), int64(<<0>>)>>,
         <<int64(<<0>>), int64(<<1, 0>>), ndarray(<<0>>)>>,
         <<int64(<<0>>), ndarray(<<0>>), int64(<<1, 0>>)>>,
         <<int64(<<0>>), ndarray(<<1, 0>>)>>}}

FlagInputs == {Bool(TRUE), Bool(FALSE), NonBool}

\* hash_strings matters to keys of strings only: its default, or no bool
HashFlagInputs == {Bool(TRUE), NonBool}

KeyInputs ==
    {SingleKey(int64(d)) : d \in ArraysUpTo(0..MaxKey, MaxSize) \cup ExampleKeys}
    \cup {SingleKey(Categorical(d, c)) :
             d \in ArraysUpTo(0..MaxKey, MaxSize), c \in BOOLEAN}
    \cup {KeySequence(<<int64(d)>>) : d \in ArraysUpTo(0..MaxKey, MaxSeqRows)}
    \cup {KeySequence(<<int64(d), int64(e)>>) :
             d \in ArraysUpTo(0..MaxKey, MaxSeqRows),
             e \in ArraysUpTo(0..MaxKey, MaxSeqRows)}
    \cup {ExampleKeySequence}
    \cup {SingleKey(UserGroupable(<<2, 1, 3, 1, 0>>))}
    \cup RefusedKeyInputs

\* value columns for a grouping of n rows: every column of n rows, the example
\* columns of n rows, and one column of another size
ValueInputs(n) ==
    (IF n <= MaxSize
     THEN UNION {{pdarray(t, d) : d \in Arrays(ValData(t), n)} : t \in DTypes}
     ELSE {})
    \cup {v \in ExampleValues : Size(v) = n}
    \cup {int64([i \in 1..(n + 1) |-> 0])}

\* one value per group for a grouping of n groups, and one array of another size
BroadcastInputs(n) ==
    (IF n <= MaxSize THEN {int64(d) : d \in Arrays(0..MaxVal, n)} ELSE {})
    \cup {v \in ExampleValues : Size(v) = n}
    \cup {int64([i \in 1..(n + 1) |-> 0])}

\* sequences of one or two value columns for a grouping of n rows: an int64 or
\* float64 column, alone or followed by a second column
ValueListInputs(n) ==
    LET first == (IF n <= MaxSize
                  THEN {pdarray(t, d) : t \in {"int64", "float64"},
                                        d \in Arrays(0..1, n)}
                  ELSE {})
                 \cup {v \in ExampleValues : Size(v) = n}
        second == {pdarray(t, [i \in 1..n |-> i % 2]) : t \in {"int64", "float64"}}
                  \cup {int64([i \in 1..(n + 1) |-> 0])}
    IN {ValueList(<<v>>) : v \in first}
       \cup {ValueList(<<v, w>>) : v \in first, w \in second}

OperatorNames == Reductions \cup {"count", "SUM", "ArgMin", "NUNIQUE", "median"}

NoObject == [outcome |-> "new"]

NoCall == [op |-> "none", outcome |-> "none"]

Call(op, args, ret) ==
    [op |-> op, args |-> args, outcome |-> ret.outcome,
     unique_keys |-> ret.unique_keys, result |-> ret.result,
     requests |-> ret.requests, detail |-> ret.detail]

(***************************************************************************)
(* The state machine: one grouping is constructed, then called.            *)
(***************************************************************************)
\* the callers of the grouping; each is between calls, or in a call
Callers == {"a", "b"}

NoCaller == [op |-> "none", outcome |-> "idle"]

Init ==
    /\ self = NoObject
    /\ call = NoCall
    /\ callers = [c \in Callers |-> NoCaller]

\* a grouping has been constructed and no call on it is being looked at
Idle == self.outcome = "ok" /\ call.op = "none"

\* GroupBy(keys, assume_sorted)
Construct ==
    /\ self.outcome = "new"
    /\ \E keys \in KeyInputs, assume_sorted \in FlagInputs,
          hash_strings \in HashFlagInputs, engine \in EngineFaults :
          /\ self' = GroupBy_init(keys, assume_sorted, hash_strings, engine)
          \* the engine rejects a request that is issued
          /\ engine # "none" => self'.outcome = "RuntimeError"
    /\ UNCHANGED <<call, callers>>

\* g.count()
Count ==
    /\ Idle
    /\ call' = Call("count", <<>>, count(self))
    /\ UNCHANGED <<self, callers>>

\* g.aggregate(values, operator, skipna)
Aggregate ==
    /\ Idle
    /\ \E values \in ValueInputs(self.size), operator \in OperatorNames,
          skipna \in BOOLEAN :
          call' = Call("aggregate",
                       [values |-> values, operator |-> operator, skipna |-> skipna],
                       aggregate(self, values, operator, skipna))
    /\ UNCHANGED <<self, callers>>

\* g.sum(values), ..., g.XOR(values)
Reduce ==
    /\ Idle
    /\ \E values \in ValueInputs(self.size), method \in Methods :
          call' = Call(method, [values |-> values, skipna |-> TRUE],
                       reduce(self, method, values, TRUE))
    /\ UNCHANGED <<self, callers>>

\* nunique building its second grouping, the one that assumes sorted keys, in
\* the grouping it was called on
Nunique_regrouping ==
    /\ Idle
    /\ \E values \in ValueInputs(self.size) \cup ValueListInputs(self.size) :
          call' = Call("nunique", [values |-> values], nunique(self, values))
    /\ self' = GroupBy(self.keys, TRUE)
    /\ UNCHANGED callers

\* g.nunique(values)
Nunique ==
    /\ Idle
    /\ \E values \in ValueInputs(self.size) \cup ValueListInputs(self.size) :
          call' = Call("nunique", [values |-> values], nunique(self, values))
    /\ UNCHANGED <<self, callers>>

\* g.broadcast(values, permute), the values given by the caller or being the
\* aggregates the preceding call returned (from records that call)
GroupByBroadcast ==
    /\ self.outcome = "ok"
    /\ \E permute \in BOOLEAN :
          \/ /\ call.op = "none"
             /\ \E values \in BroadcastInputs(self.ngroups) :
                call' = Call("broadcast",
                             [values |-> values, permute |-> permute, from |-> <<>>],
                             GroupBy_broadcast(self, values, permute))
          \/ /\ call.op = "aggregate"
             /\ call.outcome = "ok"
             /\ call.args.operator \in {"sum", "min"}
             /\ call' = Call("broadcast",
                             [values |-> call.result, permute |-> permute,
                              from |-> <<call.args>>],
                             GroupBy_broadcast(self, call.result, permute))
    /\ UNCHANGED <<self, callers>>

\* the caller is done with the result of the last call
Return ==
    /\ call.op # "none"
    /\ call' = NoCall
    /\ UNCHANGED <<self, callers>>

\* broadcast(g.segments, values, size, permutation) on the grouping's own
\* segments, with its permutation or with its size, the values being the
\* aggregates the preceding call returned
BroadcastSegments ==
    /\ self.outcome = "ok"
    /\ call.op = "aggregate"
    /\ call.outcome = "ok"
    /\ call.args.operator \in {"sum", "min"}
    /\ \E permutation \in {None, Permutation(self.permutation)} :
          call' = Call("broadcast_fn",
                       [segments |-> self.segments, values |-> call.result,
                        size |-> self.size, permutation |-> permutation,
                        from |-> <<call.args>>],
                       broadcast(self.segments, call.result, self.size, permutation))
    /\ UNCHANGED <<self, callers>>

Next ==
    \/ Construct
    \/ Count
    \/ Aggregate
    \/ Reduce
    \/ Nunique
    \/ GroupByBroadcast
    \/ BroadcastSegments
    \/ Return

Spec == Init /\ [][Next]_vars

\* the constructions alone: what a grouping is when __init__ returns or raises
NextConstruct == Construct

SpecConstruct == Init /\ [][NextConstruct]_vars

(***************************************************************************)
(* The module-level broadcast function on its own: every combination of    *)
(* segments, values, size and permutation within the bounds.  Segments are *)
(* offsets in ascending order starting at 0, a permutation is a bijection  *)
(* on [0, n), as the function's documentation requires of them.            *)
(***************************************************************************)
SegmentInputs ==
    {s \in ArraysUpTo(0..MaxSize, MaxSize) :
        /\ s # <<>> => s[1] = 0
        /\ \A g \in 1..(Len(s) - 1) : s[g] <= s[g + 1]}
    \cup {<<0, 2, 5>>}

PermutationInputs ==
    {None}
    \cup {Permutation(p) : p \in {q \in ArraysUpTo(0..(MaxSize - 1), MaxSize) :
             /\ \A i \in 1..Len(q) : q[i] < Len(q)
             /\ \A i, j \in 1..Len(q) : i # j => q[i] # q[j]}}
    \cup {Permutation(<<6, 5, 4, 3, 2, 1, 0>>)}

SizeInputs == (-1..(MaxSize + 1)) \cup {7}

BroadcastValueInputs ==
    {int64(d) : d \in ArraysUpTo(0..MaxVal, MaxSize)} \cup {int64(<<7, 8, 9>>)}

\* broadcast(segments, values, size, permutation)
Broadcast ==
    /\ call.op = "none"
    /\ \E segments \in SegmentInputs, values \in BroadcastValueInputs,
          size \in SizeInputs, permutation \in PermutationInputs :
       /\ call' = Call("broadcast_fn",
                       [segments |-> segments, values |-> values, size |-> size,
                        permutation |-> permutation, from |-> <<>>],
                       broadcast(segments, values, size, permutation))
       /\ UNCHANGED <<self, callers>>

NextBroadcast == Broadcast \/ Return

SpecBroadcast == Init /\ [][NextBroadcast]_vars

(***************************************************************************)
(* The callers of one constructed grouping.  A call is a sequence of       *)
(* steps: each delegated request is one step, the engine answering or      *)
(* rejecting it, and the return is the last.  Every step reads the         *)
(* grouping as it is when the step is taken; the steps of different        *)
(* callers interleave.                                                     *)
(***************************************************************************)
\* the keys of the groupings the callers share: the five-row key of the
\* docstrings, a pre-grouped key and a key of two columns
SharedKeyInputs ==
    {SingleKey(int64(<<0, 1, 0, 1, 0>>)),
     SingleKey(Categorical(<<1, 0, 1>>, TRUE)),
     ExampleKeySequence}

SharedGroupings ==
    {g \in {GroupBy(keys, assume_sorted) :
               keys \in SharedKeyInputs, assume_sorted \in BOOLEAN} :
        g.outcome = "ok"}

\* value columns for a grouping of n rows: an int64 column, a float64 column
\* and a column of another size
RowValues(n) ==
    {int64([i \in 1..n |-> (n - i) % 3]),
     pdarray("float64", [i \in 1..n |-> i % 2]),
     int64([i \in 1..(n + 1) |-> 0])}

\* one value per group for a grouping of n groups, and an array of another size
GroupValues(n) ==
    {int64([i \in 1..n |-> n - i]), int64([i \in 1..(n + 1) |-> 0])}

\* the calls a caller makes on grouping g, the last being the module-level
\* broadcast on the segments of g
SharedCalls(g) ==
    {[op |-> "count", args |-> <<>>]}
    \cup {[op |-> "aggregate",
           args |-> [values |-> values, operator |-> operator, skipna |-> TRUE]] :
             values \in RowValues(g.size),
             operator \in {"sum", "argmax", "nunique", "median"}}
    \cup {[op |-> "nunique", args |-> [values |-> values]] :
             values \in RowValues(g.size)}
    \cup {[op |-> "broadcast", args |-> [values |-> values, permute |-> permute]] :
             values \in GroupValues(g.ngroups), permute \in BOOLEAN}
    \cup {[op |-> "broadcast_fn",
           args |-> [values |-> int64([i \in 1..g.ngroups |-> g.ngroups - i]),
                     permutation |-> permutation]] :
             permutation \in {None, Permutation(g.permutation)}}

\* the call op(args) on grouping g, run from its first step to its last
Run(g, op, args) ==
    CASE op = "count" -> count(g)
      [] op = "aggregate" ->
            aggregate(g, args.values, args.operator, args.skipna)
      [] op = "nunique" -> nunique(g, args.values)
      [] op = "broadcast" -> GroupBy_broadcast(g, args.values, args.permute)
      [] op = "broadcast_fn" ->
            broadcast(g.segments, args.values, g.size, args.permutation)

InitShared ==
    /\ self \in SharedGroupings
    /\ call = NoCall
    /\ callers = [c \in Callers |-> NoCaller]

Running(c) == callers[c].outcome = "running"

Finished(c) == callers[c].outcome \notin {"idle", "running"}

\* caller c enters a method of the grouping; alone is what the call returns
\* when no step of another caller comes between its steps and the engine
\* answers every request
Start(c) ==
    /\ callers[c].outcome = "idle"
    /\ \E m \in SharedCalls(self) :
          callers' = [callers EXCEPT ![c] =
                         [op |-> m.op, args |-> m.args, outcome |-> "running",
                          requests |-> <<>>, rejected |-> 0,
                          unique_keys |-> <<>>, result |-> NoArray,
                          alone |-> Run(self, m.op, m.args)]]
    /\ UNCHANGED <<self, call>>

\* the next request of the call, issued twice when the engine rejects it
Reject_retrying(c) ==
    /\ Running(c)
    /\ \E ret \in {Run(self, callers[c].op, callers[c].args)},
          n \in {Len(callers[c].requests)} :
          /\ n < Len(ret.requests)
          /\ callers' = [callers EXCEPT
                            ![c].requests = @ \o <<ret.requests[n + 1],
                                                   ret.requests[n + 1]>>,
                            ![c].rejected = n + 1,
                            ![c].outcome = "RuntimeError"]
    /\ UNCHANGED <<self, call>>

\* a step of nunique that builds the grouping of the sorted group indices in
\* the grouping it was called on
Delegate_regrouping(c) ==
    /\ Running(c)
    /\ \E ret \in {Run(self, callers[c].op, callers[c].args)},
          n \in {Len(callers[c].requests)} :
          /\ n < Len(ret.requests)
          /\ callers' = [callers EXCEPT
                            ![c].requests = Append(@, ret.requests[n + 1])]
          /\ self' = IF callers[c].op = "nunique"
                     THEN GroupBy(self.keys, TRUE)
                     ELSE self
    /\ UNCHANGED call

\* the call of caller c issues its next request and the engine answers it
Delegate(c) ==
    /\ Running(c)
    /\ \E ret \in {Run(self, callers[c].op, callers[c].args)},
          n \in {Len(callers[c].requests)} :
          /\ n < Len(ret.requests)
          /\ callers' = [callers EXCEPT
                            ![c].requests = Append(@, ret.requests[n + 1])]
    /\ UNCHANGED <<self, call>>

\* the call of caller c issues its next request and the engine rejects it:
\* generic_msg raises, and no method of the grouping handles an exception
Reject(c) ==
    /\ Running(c)
    /\ \E ret \in {Run(self, callers[c].op, callers[c].args)},
          n \in {Len(callers[c].requests)} :
          /\ n < Len(ret.requests)
          /\ callers' = [callers EXCEPT
                            ![c].requests = Append(@, ret.requests[n + 1]),
                            ![c].rejected = n + 1,
                            ![c].outcome = "RuntimeError"]
    /\ UNCHANGED <<self, call>>

\* aggregate noting, once it has put the values in grouped order, that the
\* grouping is sorted
Finish_marking_sorted(c) ==
    /\ Running(c)
    /\ \E ret \in {Run(self, callers[c].op, callers[c].args)} :
          /\ Len(callers[c].requests) = Len(ret.requests)
          /\ callers' = [callers EXCEPT
                            ![c].outcome = ret.outcome,
                            ![c].unique_keys = ret.unique_keys,
                            ![c].result = ret.result]
    /\ self' = IF callers[c].op = "aggregate"
               THEN [self EXCEPT !.assume_sorted = TRUE]
               ELSE self
    /\ UNCHANGED call

\* the call of caller c has issued its requests: it returns, or raises the
\* error of its validation
Finish(c) ==
    /\ Running(c)
    /\ \E ret \in {Run(self, callers[c].op, callers[c].args)} :
          /\ Len(callers[c].requests) = Len(ret.requests)
          /\ callers' = [callers EXCEPT
                            ![c].outcome = ret.outcome,
                            ![c].unique_keys = ret.unique_keys,
                            ![c].result = ret.result]
    /\ UNCHANGED <<self, call>>

\* caller c is done with what its call returned
Done(c) ==
    /\ Finished(c)
    /\ callers' = [callers EXCEPT ![c] = NoCaller]
    /\ UNCHANGED <<self, call>>

\* caller c keeps what its call returned, to compare a later call with
Remember(c) ==
    /\ Finished(c)
    /\ call = NoCall
    /\ call' = [op |-> callers[c].op, args |-> callers[c].args,
                outcome |-> callers[c].outcome,
                unique_keys |-> callers[c].unique_keys,
                result |-> callers[c].result,
                requests |-> callers[c].requests]
    /\ callers' = [callers EXCEPT ![c] = NoCaller]
    /\ UNCHANGED self

\* several callers, their steps interleaved
NextCallers ==
    \E c \in Callers : Start(c) \/ Delegate(c) \/ Finish(c) \/ Done(c)

SpecCallers == InitShared /\ [][NextCallers]_vars

\* one caller calling again and again
NextRepeat ==
    \/ Start("a")
    \/ Delegate("a")
    \/ Finish("a")
    \/ Done("a")
    \/ Remember("a")

SpecRepeat == InitShared /\ [][NextRepeat]_vars

\* one caller and an engine that rejects requests
NextRejecting ==
    \/ Start("a")
    \/ Delegate("a")
    \/ Reject("a")
    \/ Finish("a")
    \/ Done("a")

SpecRejecting == InitShared /\ [][NextRejecting]_vars

(***************************************************************************)
(* Vocabulary of the properties.                                           *)
(***************************************************************************)
Built == self.outcome = "ok"

\* the data of the key columns, and the original rows 0 .. size - 1
KeyData == [c \in 1..Len(self.keys.cols) |-> self.keys.cols[c].data]

Rows == 0..(self.size - 1)

Groups == 1..Len(self.segments)

\* rows i and j carry the same key
SameKey(i, j) == \A c \in 1..Len(KeyData) : KeyData[c][i + 1] = KeyData[c][j + 1]

\* the key of row i is below the key of row j, the first column deciding first
KeyBelow(i, j) ==
    \E c \in 1..Len(KeyData) :
        /\ KeyData[c][i + 1] < KeyData[c][j + 1]
        /\ \A d \in 1..(c - 1) : KeyData[d][i + 1] = KeyData[d][j + 1]

\* the keys as given are in ascending order / have equal keys adjacent
KeysAscending == \A i, j \in Rows : i < j => ~KeyBelow(j, i)

KeysGrouped ==
    \A i, j, k \in Rows : (i < k /\ k < j /\ SameKey(i, j)) => SameKey(i, k)

\* the grouped positions of segment g, and the original rows found there
Positions(g) ==
    {j \in Rows : /\ self.segments[g] <= j
                  /\ (g < Len(self.segments) => j < self.segments[g + 1])}

RowsOf(g) == {self.permutation[j + 1] : j \in Positions(g)}

IsBijection(p, n) ==
    /\ Len(p) = n
    /\ \A i \in 0..(n - 1) : \E j \in 1..n : p[j] = i

\* C3 (as stated): segments of every constructed grouping are non-decreasing,
\* start with 0, stay below size, and their lengths sum to size.
SegmentsWellFormedAlways ==
    Built =>
       /\ Len(self.segments) >= 1
       /\ self.segments[1] = 0
       /\ \A g \in Groups : self.segments[g] < self.size
       /\ \A g \in 1..(Len(self.segments) - 1) :
             self.segments[g] <= self.segments[g + 1]
       /\ SumSeq(countReduction(self.segments, self.size)) = self.size

\* C3 (amended): segments of every constructed grouping are non-decreasing,
\* stay below size, their lengths sum to size, and when size > 0 the first
\* one is 0; the grouping of no rows has no segments.
SegmentsWellFormed ==
    Built =>
       /\ self.size > 0 => (Len(self.segments) >= 1 /\ self.segments[1] = 0)
       /\ self.size = 0 => self.segments = <<>>
       /\ \A g \in Groups : self.segments[g] < self.size
       /\ \A g \in 1..(Len(self.segments) - 1) :
             self.segments[g] <= self.segments[g + 1]
       /\ SumSeq(countReduction(self.segments, self.size)) = self.size

\* a grouping of several segments found by the boundary finder, and one that
\* adopted the segments its key caches
SegmentsWitness ==
    /\ Built
    /\ Len(self.segments) >= 2
    /\ \/ self.keys.cols[1].cached
       \/ self.nkeys = 2

\* the segment that holds grouped position j
SegmentAt(j) == CHOOSE g \in Groups : j \in Positions(g)

\* rows that share a key lie in one segment, at adjacent grouped positions
OneSegmentPerKey ==
    \A j, k \in Rows :
        SameKey(self.permutation[j + 1], self.permutation[k + 1]) =>
           /\ SegmentAt(j) = SegmentAt(k)
           /\ \A m \in Rows : (j < m /\ m < k) =>
                 SameKey(self.permutation[j + 1], self.permutation[m + 1])

\* the grouping was built by sorting, or from keys that were in ascending
\* order as assume_sorted says
SortedAsAssumed == ~self.assume_sorted \/ KeysAscending

\* C4 (as stated): in every constructed grouping permutation is a bijection
\* on [0, size) and the rows of one key occupy one contiguous range of
\* grouped positions, inside one segment.
PermutationGroupsKeysAlways ==
    Built => IsBijection(self.permutation, self.size) /\ OneSegmentPerKey

\* C4 (amended): in every constructed grouping permutation is a bijection on
\* [0, size); the rows of one key occupy one contiguous range of grouped
\* positions, inside one segment, when the grouping was built by sorting or
\* with assume_sorted from keys already in ascending order.
PermutationGroupsKeys ==
    Built =>
       /\ IsBijection(self.permutation, self.size)
       /\ SortedAsAssumed => OneSegmentPerKey

\* a sorted grouping whose permutation moves rows and whose keys repeat
PermutationWitness ==
    /\ Built
    /\ ~self.assume_sorted
    /\ self.permutation # arange(self.size).data
    /\ Len(self.segments) < self.size
    /\ Len(self.segments) >= 2

UniqueKeyData == [c \in 1..Len(self.unique_keys) |-> self.unique_keys[c].data]

\* unique key g is below unique key h, the first column deciding first
UniqueKeyBelow(g, h) ==
    \E c \in 1..Len(UniqueKeyData) :
        /\ UniqueKeyData[c][g] < UniqueKeyData[c][h]
        /\ \A d \in 1..(c - 1) : UniqueKeyData[d][g] = UniqueKeyData[d][h]

UniqueKeysAscending ==
    /\ \A c \in 1..Len(UniqueKeyData) : Len(UniqueKeyData[c]) = Len(self.segments)
    /\ \A g, h \in Groups : g < h => UniqueKeyBelow(g, h)

\* within every segment the original row indices increase
StableWithinSegments ==
    \A g \in Groups : \A j, k \in Positions(g) :
        j < k => self.permutation[j + 1] < self.permutation[k + 1]

\* C5 (as stated): in every constructed grouping unique_keys is strictly
\* ascending, lexicographically over the key columns, and within each segment
\* the permutation values increase.
AscendingStableAlways ==
    Built => UniqueKeysAscending /\ StableWithinSegments

\* C5 (amended): within each segment of every constructed grouping the
\* permutation values increase; unique_keys is strictly ascending when the
\* grouping was built by sorting or with assume_sorted from keys already in
\* ascending order.
AscendingStable ==
    Built =>
       /\ StableWithinSegments
       /\ SortedAsAssumed => UniqueKeysAscending

\* a grouping sorted on two key columns whose rows repeat
AscendingStableWitness ==
    /\ Built
    /\ ~self.assume_sorted
    /\ self.nkeys = 2
    /\ self.permutation # arange(self.size).data
    /\ Len(self.segments) < self.size
    /\ Len(self.segments) >= 3

\* the number of rows whose key is unique key g
RowsWithUniqueKey(g) ==
    Cardinality({i \in Rows :
        \A c \in 1..Len(KeyData) : KeyData[c][i + 1] = UniqueKeyData[c][g]})

CountsAreKeyFrequencies ==
    /\ call.outcome = "ok"
    /\ call.unique_keys = self.unique_keys
    /\ \A c \in 1..Len(UniqueKeyData) : Len(call.result.data) = Len(UniqueKeyData[c])
    /\ \A g \in 1..Len(call.result.data) : call.result.data[g] = RowsWithUniqueKey(g)
    /\ SumSeq(call.result.data) = self.size

CountExample ==
    (self.keys = SingleKey(int64(<<3, 2, 3, 1, 2, 4, 3, 4, 3, 4>>)) /\ ~self.assume_sorted)
       => /\ call.unique_keys = <<int64(<<1, 2, 3, 4>>)>>
          /\ call.result = int64(<<1, 2, 4, 3>>)

\* C2 (as stated): count() returns unique_keys and, for every group g, the
\* number of rows whose key equals unique_keys[g], so the counts sum to size;
\* keys [3,2,3,1,2,4,3,4,3,4] give keys [1,2,3,4] and counts [1,2,4,3].
CountIsKeyFrequencyAlways ==
    call.op = "count" => CountsAreKeyFrequencies /\ CountExample

\* C2 (amended): the same, for a grouping built by sorting or built with
\* assume_sorted from keys whose equal keys are adjacent.
CountIsKeyFrequency ==
    (call.op = "count" /\ (~self.assume_sorted \/ KeysGrouped))
       => CountsAreKeyFrequencies /\ CountExample

\* count() on the grouping of the example
CountWitness ==
    /\ call.op = "count"
    /\ self.keys = SingleKey(int64(<<3, 2, 3, 1, 2, 4, 3, 4, 3, 4>>))
    /\ ~self.assume_sorted
    /\ call.result = int64(<<1, 2, 4, 3>>)

RECURSIVE SumOfRows(_, _)
SumOfRows(data, S) ==
    IF S = {} THEN 0
    ELSE LET i == CHOOSE x \in S : TRUE
         IN data[i + 1] + SumOfRows(data, S \ {i})

\* the sum of the value column v over the rows that carry the key of row i
SumOfOwnGroup(v, i) == SumOfRows(v.data, {j \in Rows : SameKey(i, j)})

\* the call broadcast the sums that aggregate(v, "sum") returned for a sorted
\* grouping back to the rows, through the permutation
BroadcastOfSums ==
    /\ call.op \in {"broadcast", "broadcast_fn"}
    /\ call.args.from # <<>>
    /\ call.args.from[1].operator = "sum"
    /\ ~self.assume_sorted
    /\ call.op = "broadcast" => call.args.permute
    /\ call.op = "broadcast_fn" => call.args.permutation.given

EveryRowHasTheSumOfItsGroup ==
    /\ call.outcome = "ok"
    /\ Len(call.result.data) = self.size
    /\ \A i \in Rows : call.result.data[i + 1] = SumOfOwnGroup(call.args.from[1].values, i)

\* C1 (as stated): for a grouping built by sorting and a value column v of its
\* size, broadcasting the sums of aggregate(v, "sum") over the grouping's
\* segments with its permutation, by the broadcast function or by
\* g.broadcast(sums, permute=True), gives an array of length size holding at
\* every row the sum of v over the rows with that row's key.
RoundTripSumAlways == BroadcastOfSums => EveryRowHasTheSumOfItsGroup

\* C1 (amended): the same for a grouping of at least one row; for the grouping
\* of no rows g.broadcast returns the empty array and the broadcast function
\* raises a value error.
RoundTripSum ==
    BroadcastOfSums =>
       /\ (self.size > 0 \/ call.op = "broadcast") => EveryRowHasTheSumOfItsGroup
       /\ (self.size = 0 /\ call.op = "broadcast_fn") => call.outcome = "ValueError"

\* the sums of a sorted grouping whose permutation moves rows, broadcast by
\* the broadcast function to rows of different sums
RoundTripSumWitness ==
    /\ BroadcastOfSums
    /\ call.op = "broadcast_fn"
    /\ self.permutation # arange(self.size).data
    /\ call.outcome = "ok"
    /\ \E i, j \in Rows : call.result.data[i + 1] # call.result.data[j + 1]

\* the call is argmin or argmax by the method or by
\* aggregate, and returned
ArgCall(name) ==
    /\ \/ call.op = name
       \/ call.op = "aggregate" /\ lower(call.args.operator) = name
    /\ call.outcome = "ok"

\* x is no worse than y: not above it for argmin, not below it for argmax
NoWorse(name, x, y) == IF name = "argmin" THEN x <= y ELSE x >= y

\* every returned index is a row of its group, holds the group's extreme
\* value, and is the first row of the group to hold it
ArgIsFirstExtremeRow(name) ==
    LET v == call.args.values.data
        r == call.result.data
    IN /\ Len(r) = Len(self.segments)
       /\ call.unique_keys = self.unique_keys
       /\ \A g \in Groups :
             /\ r[g] \in RowsOf(g)
             /\ \A i \in RowsOf(g) : NoWorse(name, v[r[g] + 1], v[i + 1])
             /\ \A i \in RowsOf(g) : v[i + 1] = v[r[g] + 1] => r[g] <= i

\* the examples in the docstrings of argmin and argmax
ArgExample(name) ==
    (/\ self.keys = SingleKey(int64(<<3, 3, 4, 3, 3, 2, 3, 2, 4, 2>>))
     /\ ~self.assume_sorted
     /\ call.args.values = int64(<<3, 3, 3, 4, 1, 1, 3, 3, 3, 4>>))
       => /\ call.unique_keys = <<int64(<<2, 3, 4>>)>>
          /\ call.result.data = IF name = "argmin" THEN <<5, 4, 2>> ELSE <<9, 3, 2>>

\* C6: argmin (argmax) returns for every group g an index into the original
\* values that is a row of group g, holds the minimum (maximum) of the group's
\* values and is the first such row, for groupings built by sorting and for
\* groupings built with assume_sorted=True.
ArgReturnsOriginalRow ==
    \A name \in {"argmin", "argmax"} :
        ArgCall(name) => ArgIsFirstExtremeRow(name) /\ ArgExample(name)

\* argmax on a sorted grouping whose permutation moves rows, a maximum lying
\* past the start of a segment that is not the first
ArgWitness ==
    /\ ArgCall("argmax")
    /\ ~self.assume_sorted
    /\ \E g \in Groups :
          /\ call.result.data[g] # self.permutation[self.segments[g] + 1]
          /\ call.result.data[g] # self.segments[g]
          /\ self.segments[g] > 0

\* the call is nunique, by the method or by aggregate, and returned
NuniqueCall ==
    /\ \/ call.op = "nunique"
       \/ call.op = "aggregate" /\ lower(call.args.operator) = "nunique"
    /\ call.outcome = "ok"

\* the distinct values of the value column v among the rows of group g
ValuesOf(v, g) ==
    IF v.objtype = "list"
    THEN {[c \in 1..Len(v.cols) |-> v.cols[c].data[i + 1]] : i \in RowsOf(g)}
    ELSE {v.data[i + 1] : i \in RowsOf(g)}

\* the example in the docstring of nunique
NuniqueExample ==
    (/\ self.keys = SingleKey(int64(<<1, 1, 1, 2, 2, 2, 3, 3, 3, 4>>))
     /\ call.args.values = int64(<<3, 4, 3, 1, 1, 4, 3, 4, 1, 4>>))
       => /\ call.unique_keys = <<int64(<<1, 2, 3, 4>>)>>
          /\ call.result = int64(<<2, 2, 3, 1>>)

\* C7: nunique(values) returns the grouping's unique_keys and ngroups counts,
\* counts[g] being the number of distinct values among the rows of group g,
\* so all ones when every group holds one distinct value.
NuniqueCountsDistinctValues ==
    NuniqueCall =>
       /\ call.unique_keys = self.unique_keys
       /\ Len(call.result.data) = self.ngroups
       /\ \A g \in Groups :
             call.result.data[g] = Cardinality(ValuesOf(call.args.values, g))
       /\ (\A g \in Groups : Cardinality(ValuesOf(call.args.values, g)) = 1)
             => \A g \in Groups : call.result.data[g] = 1
       /\ NuniqueExample

\* nunique on a sorted grouping whose permutation moves rows, the groups
\* holding different numbers of distinct values
NuniqueWitness ==
    /\ NuniqueCall
    /\ ~self.assume_sorted
    /\ self.permutation # arange(self.size).data
    /\ \E g, h \in Groups : call.result.data[g] # call.result.data[h]

\* grouped position j lies in segment g of the segments sequence segs
InSegment(segs, g, j) ==
    /\ segs[g] <= j
    /\ g < Len(segs) => j < segs[g + 1]

\* the broadcast function was called without a permutation and returned
BroadcastBySize ==
    /\ call.op = "broadcast_fn"
    /\ ~call.args.permutation.given
    /\ call.outcome = "ok"

\* C8: broadcast(segments, values, size) without a permutation returns an
\* array of length size in grouped order: position j holds values[g] for the
\* group g with segments[g] <= j < segments[g+1], the last segment running to
\* size; segments [0,2,5], values [v0,v1,v2], size 7 give
\* [v0,v0,v1,v1,v1,v2,v2].
BroadcastFillsSegments ==
    BroadcastBySize =>
       LET a == call.args
           r == call.result.data
       IN /\ Len(r) = a.size
          /\ \A j \in 0..(a.size - 1) : \A g \in 1..Len(a.segments) :
                InSegment(a.segments, g, j) => r[j + 1] = a.values.data[g]
          /\ (a.segments = <<0, 2, 5>> /\ a.values.data = <<7, 8, 9>> /\ a.size = 7)
                => r = <<7, 7, 8, 8, 8, 9, 9>>

\* the example: three segments of lengths 2, 3 and 2
BroadcastFillsSegmentsWitness ==
    /\ BroadcastBySize
    /\ call.args.segments = <<0, 2, 5>>
    /\ call.args.size = 7
    /\ call.result.data = <<7, 7, 8, 8, 8, 9, 9>>

\* g.broadcast(values, permute) returned
GroupByBroadcastCall == call.op = "broadcast" /\ call.outcome = "ok"

BroadcastExample ==
    (/\ self.keys = SingleKey(int64(<<0, 1, 0, 1, 0>>))
     /\ ~self.assume_sorted
     /\ call.args.values = int64(<<3, 5>>))
       => call.result.data = IF call.args.permute THEN <<3, 5, 3, 5, 3>>
                             ELSE <<3, 3, 3, 5, 5>>

\* C9: g.broadcast(values, permute=True) puts at every original row the value
\* of the group the row belongs to: result[permutation[j]] is the grouped-order
\* value at j; permute=False returns the grouped-order sequence; keys
\* [0,1,0,1,0] and values [3,5] give [3,5,3,5,3] and [3,3,3,5,5].
BroadcastInvertsPermutation ==
    GroupByBroadcastCall =>
       LET v == call.args.values.data
           r == call.result.data
       IN /\ Len(r) = self.size
          /\ call.args.permute =>
                \A j \in Rows : r[self.permutation[j + 1] + 1] = v[SegmentAt(j)]
          /\ ~call.args.permute => \A j \in Rows : r[j + 1] = v[SegmentAt(j)]
          /\ BroadcastExample

\* the example in grouped order: it differs from the original order
BroadcastInvertsPermutationWitness ==
    /\ GroupByBroadcastCall
    /\ self.keys = SingleKey(int64(<<0, 1, 0, 1, 0>>))
    /\ ~self.assume_sorted
    /\ ~call.args.permute
    /\ call.result.data = <<3, 3, 3, 5, 5>>

\* C10: the broadcast function raises a value error, having issued no
\* request, exactly when segments and values differ in size, or segments is
\* empty, or neither permutation nor size is given, or the resolved size (the
\* permutation's length when one is given, else the size argument) is below 1;
\* otherwise it issues exactly one broadcast request carrying the resolved size.
BroadcastValidates ==
    call.op = "broadcast_fn" =>
       LET a == call.args
           resolved == IF a.permutation.given THEN Len(a.permutation.data) ELSE a.size
           rejected == \/ Len(a.segments) # Len(a.values.data)
                       \/ a.segments = <<>>
                       \/ ~a.permutation.given /\ a.size = -1
                       \/ resolved < 1
       IN /\ rejected => (call.outcome = "ValueError" /\ call.requests = <<>>)
          /\ ~rejected =>
                /\ call.outcome = "ok"
                /\ Len(call.requests) = 1
                /\ call.requests[1].cmd = "broadcast"
                /\ call.requests[1].args[5] = resolved

\* a call given a permutation and a size that is not the permutation's length
BroadcastValidatesWitness ==
    /\ call.op = "broadcast_fn"
    /\ call.outcome = "ok"
    /\ call.args.permutation.given
    /\ call.args.size # Len(call.args.permutation.data)
    /\ call.args.size # -1
    /\ call.args.size < 1
    /\ Len(call.args.permutation.data) = 2

(***************************************************************************)
(* Validation in the reduction methods and in aggregate.                   *)
(***************************************************************************)
\* a reduction method was called on a value column of a dtype it refuses
RefusedByMethod ==
    /\ call.op \in Methods
    /\ \/ call.op \in {"min", "max", "argmin", "argmax"}
          /\ call.args.values.dtype = "bool"
       \/ call.op \in {"OR", "AND", "XOR"}
          /\ call.args.values.dtype \notin {"int64", "uint64"}
       \/ call.op \in {"any", "all"}
          /\ call.args.values.dtype # "bool"

\* C11: min, max, argmin and argmax on a boolean value column, OR/AND/XOR on
\* a value column that is neither int64 nor uint64, and any/all on a
\* non-boolean value column raise a type error, no request having been
\* issued, and a call of a reduction method leaves the grouping as it was.
MethodsCheckDtype ==
    /\ [](RefusedByMethod => (call.outcome = "TypeError" /\ call.requests = <<>>))
    /\ [][call'.op \in Methods => self' = self]_vars

\* XOR refused on a float64 column of the grouping's size
MethodsCheckDtypeWitness ==
    /\ RefusedByMethod
    /\ call.op = "XOR"
    /\ call.args.values.dtype = "float64"
    /\ Size(call.args.values) = self.size
    /\ self.size > 0
    /\ call.outcome = "TypeError"

\* aggregate was called with an operator that, lowercased, is no reduction
UnsupportedOperator ==
    /\ call.op = "aggregate"
    /\ lower(call.args.operator) \notin Reductions

\* C12: aggregate with an operator whose lowercased name is not in the
\* reduction set raises a value error listing the reduction set, whatever the
\* size of the values, no request having been issued, and leaves the grouping
\* as it was.
AggregateRejectsOperator ==
    /\ [](UnsupportedOperator =>
            /\ call.outcome = "ValueError"
            /\ call.detail = Reductions
            /\ call.requests = <<>>)
    /\ [][call'.op = "aggregate" => self' = self]_vars

\* "median" with a value column whose size is not the grouping's
AggregateRejectsOperatorWitness ==
    /\ UnsupportedOperator
    /\ call.args.operator = "median"
    /\ Size(call.args.values) # self.size
    /\ call.outcome = "ValueError"

\* the operator names of the model that are not written in lower case
CaseVariants == {"SUM", "ArgMin", "NUNIQUE"}

\* C13: aggregate(values, variant), variant being an upper- or mixed-case
\* spelling of a reduction name op, issues the requests and returns the result
\* of aggregate(values, op), and the segmentedReduction request carries the
\* lowercase name.
OperatorCaseInsensitive ==
    (call.op = "aggregate" /\ lower(call.args.operator) \in Reductions) =>
       LET a == call.args
           same == aggregate(self, a.values, lower(a.operator), a.skipna)
       IN /\ call.outcome = same.outcome
          /\ call.unique_keys = same.unique_keys
          /\ call.result = same.result
          /\ call.requests = same.requests
          /\ \A k \in 1..Len(call.requests) :
                call.requests[k].cmd = "segmentedReduction" =>
                   call.requests[k].args[3] = lower(a.operator)

\* a name not written in lower case, on a sorted grouping whose permutation
\* moves rows
OperatorCaseInsensitiveWitness ==
    /\ call.op = "aggregate"
    /\ call.args.operator \in CaseVariants
    /\ call.args.operator # lower(call.args.operator)
    /\ call.outcome = "ok"
    /\ ~self.assume_sorted
    /\ self.permutation # arange(self.size).data
    /\ Len(call.requests) >= 2

\* the call raised the unsupported-reduction value error (the one whose
\* message lists the reduction set)
UnsupportedReductionError == call.outcome = "ValueError" /\ call.detail # {}

\* C14 (as stated): each of the fourteen names sum, prod, mean, min, max,
\* argmin, argmax, nunique, any, all, or, and, xor, count passes the operator
\* check of aggregate: the unsupported-reduction value error is not raised.
AcceptedOperatorsWithCount ==
    (/\ call.op = "aggregate"
     /\ lower(call.args.operator) \in
           {"sum", "prod", "mean", "min", "max", "argmin", "argmax", "nunique",
            "any", "all", "or", "and", "xor", "count"})
       => ~UnsupportedReductionError

\* C14 (amended): the names aggregate accepts are exactly the thirteen names
\* sum, prod, mean, min, max, argmin, argmax, nunique, any, all, or, and, xor;
\* every other name, count included, raises the unsupported-reduction value
\* error, whose message lists the thirteen.
AcceptedOperators ==
    call.op = "aggregate" =>
       LET thirteen == {"sum", "prod", "mean", "min", "max", "argmin", "argmax",
                        "nunique", "any", "all", "or", "and", "xor"}
       IN /\ lower(call.args.operator) \in thirteen => ~UnsupportedReductionError
          /\ lower(call.args.operator) \notin thirteen =>
                (UnsupportedReductionError /\ call.detail = thirteen)

\* aggregate(values, "count") on values of the grouping's size, and its error
AcceptedOperatorsWitness ==
    /\ call.op = "aggregate"
    /\ call.args.operator = "count"
    /\ Size(call.args.values) = self.size
    /\ self.size > 0
    /\ UnsupportedReductionError

\* aggregate was called with a reduction name and a value column whose size is
\* not the grouping's
WrongSizeValues ==
    /\ call.op = "aggregate"
    /\ lower(call.args.operator) \in Reductions
    /\ Size(call.args.values) # self.size

\* C15: for every operator of the reduction set, nunique included,
\* aggregate(values, operator) with values.size different from the grouping's
\* size raises a value error before any request is issued.
SizeCheckedBeforeDelegation ==
    WrongSizeValues => (call.outcome = "ValueError" /\ call.requests = <<>>)

\* aggregate was called directly with a reduction and a value column of the
\* grouping's size whose dtype the reduction's method refuses
InapplicableDirectly ==
    /\ call.op = "aggregate"
    /\ Size(call.args.values) = self.size
    /\ LET op == lower(call.args.operator)
           dtype == call.args.values.dtype
       IN \/ op \in {"min", "max", "argmin", "argmax"} /\ dtype = "bool"
          \/ op \in {"or", "and", "xor"} /\ dtype \notin {"int64", "uint64"}
          \/ op \in {"any", "all"} /\ dtype # "bool"

\* the call issued the segmentedReduction request for its values
Delegated ==
    \E k \in 1..Len(call.requests) :
        /\ call.requests[k].cmd = "segmentedReduction"
        /\ call.requests[k].args[3] = lower(call.args.operator)

\* C16 (as stated): aggregate called directly with min/max/argmin/argmax on
\* a boolean value column, with or/and/xor on a value column that is not
\* int64 or uint64, or with any/all on a non-boolean value column raises a
\* type error and does not delegate the reduction.
AggregateChecksDtype ==
    InapplicableDirectly => (call.outcome = "TypeError" /\ ~Delegated)

\* C16 (amended): aggregate called directly with such an operator and value
\* column raises no type error of its own: it issues the segmentedReduction
\* request like for any other value column; only the reduction methods check
\* the dtype.
AggregateDelegatesAnyDtype ==
    InapplicableDirectly => (call.outcome # "TypeError" /\ Delegated)

\* aggregate(values, "min") on a boolean column of a sorted grouping
AggregateDelegatesAnyDtypeWitness ==
    /\ InapplicableDirectly
    /\ call.args.operator = "min"
    /\ call.args.values.dtype = "bool"
    /\ self.size > 1
    /\ ~self.assume_sorted
    /\ Delegated

\* nunique was called, by the method or through aggregate, with a single
\* array that is neither int64 nor uint64
NuniqueOnUnsupportedDtype ==
    /\ \/ call.op = "nunique"
       \/ call.op = "aggregate" /\ lower(call.args.operator) = "nunique"
    /\ call.args.values.objtype = "pdarray"
    /\ call.args.values.dtype \notin {"int64", "uint64"}

\* C17: nunique(values) with values a single array whose dtype is neither
\* int64 nor uint64 raises a type error before any request (the group-index
\* broadcast in particular) is issued.
NuniqueChecksDtypeFirst ==
    NuniqueOnUnsupportedDtype =>
       (call.outcome = "TypeError" /\ call.requests = <<>>)

\* nunique was called with a sequence of arrays one of which is a plain array
\* that is neither int64 nor uint64
NuniqueOnUnsupportedSequence ==
    /\ call.op = "nunique"
    /\ call.args.values.objtype = "list"
    /\ \E c \in 1..Len(call.args.values.cols) :
          /\ call.args.values.cols[c].objtype = "pdarray"
          /\ call.args.values.cols[c].dtype \notin {"int64", "uint64"}

Constructed == self.outcome # "new"

\* nothing was issued and no result attribute was assigned
NothingDelegatedOrSet ==
    /\ self.requests = <<>>
    /\ self.attrs \cap {"permutation", "segments", "unique_keys", "ngroups"} = {}
    /\ self.permutation = <<>>
    /\ self.segments = <<>>
    /\ self.unique_keys = <<>>

FlagNotBool ==
    \/ self.given.assume_sorted.type # "bool"
    \/ self.given.hash_strings.type # "bool"

SizeDiffers ==
    /\ self.keys.seq
    /\ \E c \in 1..Len(self.keys.cols) :
          Len(self.keys.cols[c].data) # Len(self.keys.cols[1].data)

NotSortable ==
    /\ self.keys.seq
    /\ \E c \in 1..Len(self.keys.cols) :
          self.keys.cols[c].objtype \notin {"pdarray", "Categorical", "Strings"}

\* C19: a non-boolean assume_sorted or hash_strings flag raises a type error;
\* with boolean flags, a key sequence with a column whose size differs from
\* the first column's raises a value error and one with a column lacking the
\* sortable representation raises a type error (a sequence with both raises
\* one of the two); each is raised before any request is issued, with
\* permutation, segments and unique keys unset.
ValidationPrecedesDelegation ==
    Constructed =>
       /\ FlagNotBool => self.outcome = "TypeError"
       /\ (~FlagNotBool /\ SizeDiffers /\ ~NotSortable) => self.outcome = "ValueError"
       /\ (~FlagNotBool /\ NotSortable /\ ~SizeDiffers) => self.outcome = "TypeError"
       /\ (~FlagNotBool /\ NotSortable /\ SizeDiffers) =>
             self.outcome \in {"TypeError", "ValueError"}
       /\ (FlagNotBool \/ SizeDiffers \/ NotSortable) => NothingDelegatedOrSet

\* a key sequence refused at its second column, which is not sortable, the
\* flags being booleans
ValidationPrecedesDelegationWitness ==
    /\ Constructed
    /\ ~FlagNotBool
    /\ NotSortable
    /\ ~SizeDiffers
    /\ self.keys.cols[1].objtype = "pdarray"
    /\ self.grouping_keys # <<>>
    /\ self.outcome = "TypeError"

\* the result attributes that have been assigned
ResultsSet ==
    self.attrs \cap {"permutation", "segments", "unique_keys", "ngroups"}

\* C20 (as stated): if the construction failed, none of permutation, segments
\* and unique_keys has been set on the object; if it succeeded, permutation,
\* segments, unique_keys and ngroups are all set.
AllOrNothing ==
    Constructed =>
       /\ self.outcome # "ok" =>
             self.attrs \cap {"permutation", "segments", "unique_keys"} = {}
       /\ self.outcome = "ok" =>
             ResultsSet = {"permutation", "segments", "unique_keys", "ngroups"}

\* C20 (amended): if the construction failed, the attributes assigned before
\* the failing step stay set on the abandoned object and no others: none when
\* the validation or the sort or self-grouping fails, permutation alone when
\* the find-segments request or the decoding of the segments fails,
\* permutation and segments when the decoding of the unique-row positions or
\* the indexing of the keys fails; unique_keys and ngroups are never set by a
\* failed construction, and no call is made on its object.  If the
\* construction succeeded, all four are set.
SetUpToTheFailingStep ==
    /\ Constructed =>
          /\ self.outcome = "ok" =>
                ResultsSet = {"permutation", "segments", "unique_keys", "ngroups"}
          /\ (self.outcome # "ok" /\ (FlagNotBool \/ SizeDiffers \/ NotSortable)) =>
                ResultsSet = {}
          /\ (self.outcome # "ok" /\ self.engine = "sort") => ResultsSet = {}
          /\ (self.outcome # "ok"
              /\ self.engine \in {"findSegments", "decode_segments"}) =>
                ResultsSet = {"permutation"}
          /\ (self.outcome # "ok" /\ self.engine \in {"decode_indices", "index"}) =>
                ResultsSet = {"permutation", "segments"}
          /\ (self.outcome # "ok" /\ self.engine = "none"
              /\ ~(FlagNotBool \/ SizeDiffers \/ NotSortable)) =>
                \* the one-column key sequence, refused when it is indexed
                ResultsSet = {"permutation", "segments"}
    /\ call.op # "none" => self.outcome = "ok"

\* the engine rejects the indexing of the keys of a two-column grouping whose
\* sort moved rows
SetUpToTheFailingStepWitness ==
    /\ Constructed
    /\ self.outcome = "RuntimeError"
    /\ self.engine = "index"
    /\ self.nkeys = 2
    /\ Len(self.segments) >= 2
    /\ self.permutation # arange(self.size).data
    /\ ResultsSet = {"permutation", "segments"}

(***************************************************************************)
(* The grouping after its construction.                                    *)
(***************************************************************************)
\* C21: after construction, every call of count, aggregate, a reduction
\* method, nunique or broadcast, succeeding or failing, leaves keys, nkeys,
\* size, permutation, segments, unique_keys, ngroups and assume_sorted of the
\* grouping unchanged.
ReadOnlyAfterConstruction ==
    [][self.outcome = "ok" =>
          /\ self'.outcome = "ok"
          /\ self'.keys = self.keys
          /\ self'.nkeys = self.nkeys
          /\ self'.size = self.size
          /\ self'.permutation = self.permutation
          /\ self'.segments = self.segments
          /\ self'.unique_keys = self.unique_keys
          /\ self'.ngroups = self.ngroups
          /\ self'.assume_sorted = self.assume_sorted]_vars

\* nunique has built its secondary groupings for a sorted grouping whose
\* permutation moves rows
ReadOnlyAfterConstructionWitness ==
    /\ call.op = "nunique"
    /\ call.outcome = "ok"
    /\ ~self.assume_sorted
    /\ self.permutation # arange(self.size).data
    /\ \E k \in 1..Len(call.requests) : call.requests[k].cmd = "coargsort"
    /\ self.ngroups >= 2

(***************************************************************************)
(* Repeated, rejected and interleaved calls.                               *)
(***************************************************************************)
\* what a call handed to its caller
Handed(m) ==
    [outcome |-> m.outcome, unique_keys |-> m.unique_keys, result |-> m.result,
     requests |-> m.requests]

\* C22: a call repeated with the same arguments, whatever calls were made on
\* the grouping before it or between the two, ends as the first did: the same
\* error, or the same unique keys and result, from the same requests.
RepeatedCallAgrees ==
    \A c \in Callers :
        (Finished(c) /\ call.op = callers[c].op /\ call.args = callers[c].args)
            => Handed(callers[c]) = Handed(call)

\* count has returned a second time, with the counts of two groups or more
RepeatedCallAgreesWitness ==
    /\ call.op = "count"
    /\ Finished("a")
    /\ callers["a"].op = "count"
    /\ callers["a"].outcome = "ok"
    /\ Len(callers["a"].result.data) >= 2

\* C23: when the engine rejects a request of a call, the call raises the
\* engine's error and hands nothing else to its caller; the requests of the
\* call are those of the undisturbed call up to the rejected one, which is
\* the last and is issued once; the call takes no step after it, and no step
\* changes the grouping.
RejectionFailsTheCall ==
    /\ [](\A c \in Callers :
            callers[c].outcome # "idle" /\ callers[c].rejected > 0
                => /\ callers[c].outcome = "RuntimeError"
                   /\ callers[c].unique_keys = <<>>
                   /\ callers[c].result = NoArray
                   /\ Len(callers[c].requests) = callers[c].rejected
                   /\ callers[c].requests =
                         SubSeq(callers[c].alone.requests, 1, callers[c].rejected))
    /\ [][/\ self' = self
          /\ \A c \in Callers :
                callers[c].outcome # "idle" /\ callers[c].rejected > 0
                    => callers'[c] \in {callers[c], NoCaller}]_vars

\* the engine has rejected a request of nunique that is neither its first nor
\* its last
RejectionFailsTheCallWitness ==
    /\ callers["a"].op = "nunique"
    /\ callers["a"].outcome = "RuntimeError"
    /\ callers["a"].rejected > 1
    /\ callers["a"].rejected < Len(callers["a"].alone.requests)

\* C24: when the steps of several callers' calls on one grouping interleave,
\* each call ends as it would alone, with the same requests, and no step
\* changes the grouping's permutation, segments or unique keys.
InterleavedCallsAsAlone ==
    /\ [](\A c \in Callers :
            Finished(c) => Handed(callers[c]) = Handed(callers[c].alone))
    /\ [][/\ self'.permutation = self.permutation
          /\ self'.segments = self.segments
          /\ self'.unique_keys = self.unique_keys]_vars

\* nunique has returned to one caller while the aggregate of another is
\* between its two requests, on a grouping whose permutation moves rows
InterleavedCallsAsAloneWitness ==
    /\ callers["a"].op = "nunique"
    /\ callers["a"].outcome = "ok"
    /\ callers["b"].op = "aggregate"
    /\ Running("b")
    /\ Len(callers["b"].requests) = 1
    /\ Len(callers["b"].alone.requests) >= 2
    /\ self.permutation # arange(self.size).data

(***************************************************************************)
(* The source of the permutation.                                          *)
(***************************************************************************)
\* the flattened representations of the key columns, in declared order
RECURSIVE Flattened(_)
Flattened(cols) ==
    IF cols = <<>> THEN <<>>
    ELSE get_grouping_keys(Head(cols)) \o Flattened(Tail(cols))

\* the requests of the construction that ask for a permutation
SourceRequests ==
    SelectSeq(self.requests,
              LAMBDA r : r.cmd \in {"arange", "group", "argsort", "coargsort"})

\* C25: a construction that reaches the permutation step asks exactly one
\* source for it.  With assume_sorted that is the identity [0, size), also
\* for a key that can group itself; else a single key that can group itself
\* gives it; else the single-key sort of the one flattened representation
\* when there is exactly one; else the multi-key sort of all flattened
\* representations in declared order, also when they all come from one key.
OnePermutationSource ==
    (self.outcome # "new" /\ "permutation" \in self.attrs) =>
        LET key == self.keys.cols[1]
            reps == Flattened(self.keys.cols)
        IN /\ Len(SourceRequests) = 1
           /\ IF self.assume_sorted
              THEN /\ SourceRequests[1] = Request("arange", <<self.size>>)
                   /\ self.permutation = [i \in 1..self.size |-> i - 1]
              ELSE IF ~self.keys.seq /\ HasGroup(key)
              THEN /\ SourceRequests[1] = Request("group", <<key>>)
                   /\ self.permutation = group(key)
              ELSE IF Len(reps) = 1
              THEN /\ SourceRequests[1] = Request("argsort", <<reps[1]>>)
                   /\ self.permutation = argsort(reps[1])
              ELSE /\ SourceRequests[1] = Request("coargsort", reps)
                   /\ self.permutation = coargsort(reps)

\* a grouping by one user-defined key of two representations, whose order
\* decides the permutation
OnePermutationSourceWitness ==
    /\ Built
    /\ ~self.keys.seq
    /\ self.keys.cols[1].objtype = "UserGroupable"
    /\ ~self.assume_sorted
    /\ Len(Flattened(self.keys.cols)) = 2
    /\ self.permutation # coargsort(<<Flattened(self.keys.cols)[2],
                                      Flattened(self.keys.cols)[1]>>)

(***************************************************************************)
(* The requests of aggregate.                                              *)
(***************************************************************************)
\* the positions of the segmentedReduction requests among those of the call
ReduceRequests ==
    {k \in 1..Len(call.requests) : call.requests[k].cmd = "segmentedReduction"}

\* C26: an aggregate call whose operator is a reduction other than nunique
\* and whose values have the grouping's size issues one segmentedReduction
\* request, carrying the grouping's segments, the operator in lower case and
\* skipna.  On a grouping built with assume_sorted it is the first request
\* and carries the caller's values; otherwise it is the second, after the
\* request that indexes the values by the permutation, and carries the
\* indexed values.
AggregateRequest ==
    (/\ call.op = "aggregate"
     /\ lower(call.args.operator) \in Reductions \ {"nunique"}
     /\ Size(call.args.values) = self.size)
        => /\ Cardinality(ReduceRequests) = 1
           /\ \A k \in ReduceRequests :
                 IF self.assume_sorted
                 THEN /\ k = 1
                      /\ call.requests[k].args =
                            <<call.args.values, self.segments,
                              lower(call.args.operator), call.args.skipna>>
                 ELSE /\ k = 2
                      /\ call.requests[1] =
                            Request("[]", <<call.args.values, self.permutation>>)
                      /\ call.requests[k].args =
                            <<Index(call.args.values, self.permutation),
                              self.segments, lower(call.args.operator),
                              call.args.skipna>>

\* aggregate(values, "SUM", skipna=False) on a grouping whose permutation
\* moves rows has indexed the values and reduced them
AggregateRequestWitness ==
    /\ call.op = "aggregate"
    /\ call.outcome = "ok"
    /\ call.args.operator = "SUM"
    /\ ~call.args.skipna
    /\ ~self.assume_sorted
    /\ Index(call.args.values, self.permutation) # call.args.values
    /\ Len(call.requests) = 2

(***************************************************************************)
(* The composite key of nunique.                                           *)
(***************************************************************************)
\* the index in [0, ngroups) of the group of every row, in original row order
TagByRow ==
    [i \in 1..self.size |-> (CHOOSE g \in Groups : (i - 1) \in RowsOf(g)) - 1]

\* the index of the group of every grouped position, in grouped order
TagByPosition == [j \in 1..self.size |-> SegmentAt(j - 1) - 1]

\* the request that sorts the composite key made of tag and the value columns
\* of the call
PairsRequest(tag) ==
    Request("coargsort",
            <<tag>> \o (IF call.args.values.objtype = "list"
                        THEN [c \in 1..Len(call.args.values.cols) |->
                                 call.args.values.cols[c].data]
                        ELSE <<call.args.values.data>>))

\* nunique has asked for the grouping of its composite key
PairsGrouped ==
    /\ \/ call.op = "nunique"
       \/ call.op = "aggregate" /\ lower(call.args.operator) = "nunique"
    /\ Len(call.requests) >= 3

\* C27 (as stated): nunique broadcasts the group index in grouped order and
\* pairs that with the values.
GroupTagInGroupedOrder ==
    PairsGrouped => call.requests[3] = PairsRequest(TagByPosition)

\* C27: nunique broadcasts the group index [0, ngroups) with permute=True, to
\* one value per row in original row order, and the composite key of the
\* secondary grouping is that sequence followed by the value columns.
GroupTagInRowOrder ==
    PairsGrouped =>
        /\ call.requests[1] = Request("arange", <<self.ngroups>>)
        /\ call.requests[2] =
              Request("broadcast",
                      <<self.permutation, self.segments, arange(self.ngroups),
                        TRUE, self.size>>)
        /\ call.requests[3] = PairsRequest(TagByRow)

\* nunique has grouped its composite key on a grouping whose rows are not in
\* grouped order, so that the two orders of the group index differ
GroupTagInRowOrderWitness ==
    /\ PairsGrouped
    /\ call.outcome = "ok"
    /\ TagByRow # TagByPosition

(***************************************************************************)
(* The end of the construction.                                            *)
(***************************************************************************)
\* C28 (as stated): after every successful construction, by the boundary
\* finder or by adopting the segments the key caches, the grouping no longer
\* holds its flattened key representations.
GroupingKeysReleased ==
    Built => "_grouping_keys" \notin self.attrs /\ self.grouping_keys = <<>>

\* the flags are bools and the engine accepts every request
NothingRefused ==
    /\ self.given.assume_sorted.type = "bool"
    /\ self.given.hash_strings.type = "bool"
    /\ self.engine = "none"

\* C29 (as stated): the construction from a sequence of exactly one pdarray
\* column k succeeds, with the permutation, segments and ngroups of the
\* grouping constructed from k alone and with k indexed at the unique-row
\* positions as its one unique key.
OneColumnSequenceValid ==
    (/\ self.outcome # "new"
     /\ self.keys.seq
     /\ Len(self.keys.cols) = 1
     /\ self.keys.cols[1].objtype = "pdarray"
     /\ NothingRefused)
        => LET alone == GroupBy(SingleKey(self.keys.cols[1]), self.assume_sorted)
           IN /\ self.outcome = "ok"
              /\ self.permutation = alone.permutation
              /\ self.segments = alone.segments
              /\ self.ngroups = alone.ngroups
              /\ self.unique_keys = alone.unique_keys

\* segments and unique keys were adopted from the cache of the single key
CacheAdopted ==
    /\ Built
    /\ ~self.keys.seq
    /\ self.keys.cols[1].cached

\* C30 (as stated): a grouping that adopted the segments and unique keys its
\* key caches has the permutation the key's group() returns, whatever
\* assume_sorted is.
PermutationOfTheCacheAlways ==
    CacheAdopted => self.permutation = group(self.keys.cols[1])

\* C30 (amended): a grouping that adopted the segments and unique keys its
\* key caches has asked the key's group() for its permutation and holds what
\* it returned when assume_sorted is not set; when assume_sorted is set it
\* has not asked the key and its permutation is the identity [0, size).
PermutationOfTheCache ==
    CacheAdopted =>
        /\ self.segments = CategoricalSegments(self.keys.cols[1])
        /\ IF self.assume_sorted
           THEN /\ self.requests = <<Request("arange", <<self.size>>)>>
                /\ self.permutation = [i \in 1..self.size |-> i - 1]
           ELSE /\ self.requests = <<Request("group", <<self.keys.cols[1]>>)>>
                /\ self.permutation = group(self.keys.cols[1])

\* a grouping by a key that caches its segments and whose group() moves rows,
\* built without assume_sorted
PermutationOfTheCacheWitness ==
    /\ CacheAdopted
    /\ ~self.assume_sorted
    /\ self.permutation # [i \in 1..self.size |-> i - 1]
    /\ Len(self.segments) >= 2

====
